---- MODULE Spec2Model ----
(***************************************************************************)
(* SCoWA - Servo Control over Web API (src/SCoWA.ino).                     *)
(*                                                                         *)
(* One servo, one HTTP server, one config file.  The sketch is single      *)
(* threaded: setup() runs once after power-up, then loop() dispatches one  *)
(* request at a time to a handler.  gotoPos() is modelled one loop         *)
(* iteration per step, so that the positions the servo passes through are  *)
(* states of the model.                                                    *)
(*                                                                         *)
(* The Servo object is the ESP8266 Arduino core's Servo class (core 3.x,   *)
(* the release current when the sketch was written): write() treats a      *)
(* value below 200 as an angle, constrained to 0..180 and mapped to the    *)
(* attached pulse range, and any other value as a pulse width in           *)
(* microseconds, constrained to the attached range; read() maps the stored *)
(* pulse width back to an angle.  The file system is LittleFS; its open()  *)
(* and begin() may fail, format() erases every file.                       *)
(***************************************************************************)
EXTENDS Integers, Sequences, FiniteSets, TLC

VARIABLES
    valueUs,    \* Servo::_valueUs, the pulse width last commanded
    unpark,     \* uint8_t unpark
    file,       \* content of /config.json, or NoFile
    mounted,    \* LittleFS is mounted
    boot,       \* what the last setup() found when loading the config
    pc,         \* "boot" | "idle" | "up" | "down"
    handler,    \* the handler running, or the last one that ran
    targetpos,  \* gotoPos's parameter
    pos,        \* gotoPos's loop variable (int)
    request,    \* history: the parsed pos argument of the last /goto
    startPos,   \* history: servo.read() when the handler was entered
    cmds,       \* history: values passed to servo.write by the handler
    resp,       \* the response the handler sent, NoResp while it runs
    lastSet,    \* history: position stored by the last successful /set
    setFailed   \* history: the last /set since power-up could not write

vars == <<valueUs, unpark, file, mounted, boot, pc, handler, targetpos, pos,
          request, startPos, cmds, resp, lastSet, setFailed>>

----------------------------------------------------------------------------
(* Program constants *)

park == 0
UNPARK_DEFAULT == 180
SERVOMIN == 500
SERVOMAX == 2500
ANGLE_LIMIT == 200
MAX_ANGLE == 180
NEUTRAL_US == 1500
UINT8 == 256

SERVOSPEED == 20
NoFile == <<"nofile">>
None == 0 - 1
Response(code, body, p) == [code |-> code, body |-> body, pos |-> p]
NoResp == Response(0, "", None)
OK == Response(200, "OK", None)
NoRequest == [given |-> FALSE, numeric |-> FALSE, n |-> 0]

----------------------------------------------------------------------------
(* Servo library *)

Constrain(x, lo, hi) == IF x < lo THEN lo ELSE IF x > hi THEN hi ELSE x

\* improved_map: map with rounding, operands are non-negative here
ImprovedMap(value, minIn, maxIn, minOut, maxOut) ==
    (((value - minIn) * (maxOut - minOut) * 2) \div (maxIn - minIn) + 1) \div 2
        + minOut

\* variant: the pulse width is stored without being constrained
WriteMicrosecondsUnchecked(value) == value

\* Servo::writeMicroseconds: the pulse width stored for a value
WriteMicroseconds(value) == Constrain(value, SERVOMIN, SERVOMAX)

\* Servo::write: the pulse width stored for a written value
ServoWrite(value) ==
    IF value < ANGLE_LIMIT
    THEN WriteMicroseconds(
             ImprovedMap(Constrain(value, 0, MAX_ANGLE), 0, MAX_ANGLE,
                         SERVOMIN, SERVOMAX))
    ELSE WriteMicroseconds(value)

\* Servo::read: the angle of a stored pulse width
ServoRead(us) == ImprovedMap(us, SERVOMIN, SERVOMAX, 0, MAX_ANGLE)

\* servo.read() in the current state
Position == ServoRead(valueUs)

----------------------------------------------------------------------------
(* Argument parsing *)

Digits == <<"0", "1", "2", "3", "4", "5", "6", "7", "8", "9">>
IsDigit(c) == \E i \in 1..10 : Digits[i] = c
DigitVal(c) == (CHOOSE i \in 1..10 : Digits[i] = c) - 1

RECURSIVE AtoiDigits(_, _)
AtoiDigits(s, acc) ==
    IF s = <<>> \/ ~IsDigit(Head(s)) THEN acc
    ELSE AtoiDigits(Tail(s), acc * 10 + DigitVal(Head(s)))

RECURSIVE SkipSpace(_)
SkipSpace(s) == IF s # <<>> /\ Head(s) = " " THEN SkipSpace(Tail(s)) ELSE s

\* atoi: optional blanks, optional sign, then the leading digits; 0 if none
Atoi(str) ==
    LET s == SkipSpace(str) IN
    IF s = <<>> THEN 0
    ELSE IF Head(s) = "-" THEN 0 - AtoiDigits(Tail(s), 0)
    ELSE IF Head(s) = "+" THEN AtoiDigits(Tail(s), 0)
    ELSE AtoiDigits(s, 0)

\* variant: the target is kept as an int
ToUint8Untruncated(n) == n

\* conversion of an int to uint8_t
ToUint8(n) == n % UINT8

\* handleGoto's loop over the arguments: the last "pos" argument wins
RECURSIVE ParseTarget(_, _)
ParseTarget(args, dflt) ==
    IF args = <<>> THEN dflt
    ELSE ParseTarget(Tail(args),
                     IF Head(args)[1] = "pos" THEN ToUint8(Atoi(Head(args)[2]))
                     ELSE dflt)

----------------------------------------------------------------------------
(* Config file *)

RECURSIVE ToDigitsReversed(_)
\* variant: the digits come out least significant first
ToDigitsReversed(n) ==
    IF n < 10 THEN <<Digits[n + 1]>>
    ELSE <<Digits[(n % 10) + 1]>> \o ToDigitsReversed(n \div 10)

RECURSIVE ToDigits(_)
\* serializeJson: the decimal digits written for the value of "unpark"
ToDigits(n) ==
    IF n < 10 THEN <<Digits[n + 1]>>
    ELSE Append(ToDigits(n \div 10), Digits[(n % 10) + 1])

\* deserializeJson and json["unpark"] as uint8_t: 0 if it does not fit
FromDigits(d) ==
    LET n == AtoiDigits(d, 0) IN IF n < UINT8 THEN n ELSE 0

----------------------------------------------------------------------------
(* Status *)

\* variant: unpark is compared before park
StatusWordUnparkFirst(p) ==
    IF p = unpark THEN "unparked"
    ELSE IF p = park THEN "parked"
    ELSE "custom"

\* handleStatus: the word of the status message for a position
StatusWord(p) ==
    IF p = park THEN "parked"
    ELSE IF p = unpark THEN "unparked"
    ELSE "custom"

----------------------------------------------------------------------------
(* Requests the model serves *)

PosValues ==
    { <<"9", "0">>, <<"1", "8", "0">>, <<"1", "8", "1">>, <<"2", "0", "0">>,
      <<"2", "5", "6">>, <<"-", "1">>, <<" ", "7", "x">>,
      <<"a", "b", "c">>, <<>>, <<"0">> }

Queries ==
    { <<>>, << <<"speed", <<"5">>>> >>,
      << <<"pos", <<"0">>>>, <<"pos", <<"9", "0">>>> >> }
    \cup { << <<"pos", v>> >> : v \in PosValues }

\* a value that is an integer literal: an optional sign, then only digits
IsInteger(str) ==
    LET d == IF str # <<>> /\ Head(str) \in {"-", "+"} THEN Tail(str) ELSE str
    IN  d # <<>> /\ \A i \in 1..Len(d) : IsDigit(d[i])

\* what a query asks for: its last "pos" argument, and atoi of it
RECURSIVE Requested(_, _)
Requested(args, dflt) ==
    IF args = <<>> THEN dflt
    ELSE Requested(Tail(args),
                   IF Head(args)[1] = "pos"
                   THEN [given |-> TRUE, numeric |-> IsInteger(Head(args)[2]),
                         n |-> Atoi(Head(args)[2])]
                   ELSE dflt)

----------------------------------------------------------------------------
(* Power-up *)

Init ==
    /\ valueUs = NEUTRAL_US
    /\ unpark = UNPARK_DEFAULT
    /\ file = NoFile
    /\ mounted = FALSE
    /\ boot = "none"
    /\ pc = "boot"
    /\ handler = "none"
    /\ targetpos = 0
    /\ pos = 0
    /\ request = NoRequest
    /\ startPos = 0
    /\ cmds = <<>>
    /\ resp = NoResp
    /\ lastSet = None
    /\ setFailed = FALSE

\* what setup() finds when it loads the config
BootOutcome(mountOk, openOk, parseOk) ==
    IF ~mountOk THEN "nofs"
    ELSE IF file = NoFile THEN "nofile"
    ELSE IF ~openOk THEN "openfail"
    ELSE IF ~parseOk THEN "parsefail"
    ELSE "ok"

\* the value of unpark after setup() loaded the config
LoadUnpark(outcome) ==
    IF outcome = "ok" THEN FromDigits(file)
    ELSE IF outcome = "parsefail" THEN 0
    ELSE unpark

\* variant: setup() attaches the servo but does not command the park position
SetupWithoutPark ==
    /\ pc = "boot"
    /\ \E mountOk \in BOOLEAN, openOk \in BOOLEAN, parseOk \in BOOLEAN :
          LET outcome == BootOutcome(mountOk, openOk, parseOk) IN
          /\ mounted' = mountOk
          /\ boot' = outcome
          /\ unpark' = LoadUnpark(outcome)
    /\ valueUs' = ServoWrite(NEUTRAL_US)
    /\ pc' = "idle"
    /\ UNCHANGED <<file, handler, targetpos, pos, request, startPos, cmds,
                   resp, lastSet, setFailed>>

\* setup(): load the config, attach the servo, command the park position
Setup ==
    /\ pc = "boot"
    /\ \E mountOk \in BOOLEAN, openOk \in BOOLEAN, parseOk \in BOOLEAN :
          LET outcome == BootOutcome(mountOk, openOk, parseOk) IN
          /\ mounted' = mountOk
          /\ boot' = outcome
          /\ unpark' = LoadUnpark(outcome)
    /\ valueUs' = ServoWrite(park)
    /\ pc' = "idle"
    /\ UNCHANGED <<file, handler, targetpos, pos, request, startPos, cmds,
                   resp, lastSet, setFailed>>

\* power cycle: the globals are constructed again, the file system persists
Restart ==
    /\ pc # "boot"
    /\ valueUs' = NEUTRAL_US
    /\ unpark' = UNPARK_DEFAULT
    /\ mounted' = FALSE
    /\ boot' = "none"
    /\ pc' = "boot"
    /\ handler' = "none"
    /\ targetpos' = 0
    /\ pos' = 0
    /\ request' = NoRequest
    /\ startPos' = 0
    /\ cmds' = <<>>
    /\ resp' = NoResp
    /\ setFailed' = FALSE
    /\ UNCHANGED <<file, lastSet>>

----------------------------------------------------------------------------
(* Handlers.  loop() dispatches a request only when no handler is running. *)

\* variant: a request is dispatched while a handler is still running
EnterAnytime(name, req) ==
    /\ pc # "boot"
    /\ handler' = name
    /\ request' = req
    /\ startPos' = Position
    /\ cmds' = <<>>

\* entry of a handler: what the history variables record
Enter(name, req) ==
    /\ pc = "idle"
    /\ handler' = name
    /\ request' = req
    /\ startPos' = Position
    /\ cmds' = <<>>

\* variant: the ascending loop is entered for a target equal to the position
GotoBranchInclusive(t) ==
    IF t >= Position THEN "up"
    ELSE IF t < Position THEN "down"
    ELSE "idle"

\* gotoPos up to its first loop test: the loop it enters for a target
GotoBranch(t) ==
    IF t > Position THEN "up"
    ELSE IF t < Position THEN "down"
    ELSE "idle"

\* the call gotoPos(t) made by the handler that was just entered
CallGotoPos(t) ==
    /\ targetpos' = t
    /\ pos' = Position
    /\ pc' = GotoBranch(t)
    /\ resp' = IF GotoBranch(t) = "idle" THEN OK ELSE NoResp

\* handleGoto's test before it calls gotoPos
GotoNeeded(t) == t # Position

\* handleGoto serving a request with the given arguments
Goto(args) ==
    LET t == ParseTarget(args, ToUint8(Position)) IN
    /\ Enter("goto", Requested(args, NoRequest))
    /\ IF GotoNeeded(t)
       THEN CallGotoPos(t)
       ELSE /\ resp' = OK
            /\ UNCHANGED <<pc, targetpos, pos>>
    /\ UNCHANGED <<valueUs, unpark, file, mounted, boot, lastSet, setFailed>>

handleGoto == \E args \in Queries : Goto(args)

\* variant: /park remembers the position it left as the unpark preset
handleParkRemembers ==
    /\ Enter("park", NoRequest)
    /\ CallGotoPos(park)
    /\ unpark' = ToUint8(Position)
    /\ UNCHANGED <<valueUs, file, mounted, boot, lastSet, setFailed>>

handlePark ==
    /\ Enter("park", NoRequest)
    /\ CallGotoPos(park)
    /\ UNCHANGED <<valueUs, unpark, file, mounted, boot, lastSet, setFailed>>

\* variant: /unpark moves to the default instead of the configured preset
handleUnparkDefault ==
    /\ Enter("unpark", NoRequest)
    /\ CallGotoPos(UNPARK_DEFAULT)
    /\ UNCHANGED <<valueUs, unpark, file, mounted, boot, lastSet, setFailed>>

handleUnpark ==
    /\ Enter("unpark", NoRequest)
    /\ CallGotoPos(unpark)
    /\ UNCHANGED <<valueUs, unpark, file, mounted, boot, lastSet, setFailed>>

\* variant: the ascending loop stops one short of the target
LoopUpExclusive(p, t) == p < t

\* variant: the descending loop stops one short of the target
LoopDownExclusive(p, t) == p > t

\* the tests of gotoPos's two loops
LoopUp(p, t) == p <= t
LoopDown(p, t) == p >= t

\* one iteration of gotoPos's ascending loop
StepUp ==
    /\ pc = "up"
    /\ LoopUp(pos, targetpos)
    /\ valueUs' = ServoWrite(pos)
    /\ cmds' = Append(cmds, pos)
    /\ pos' = pos + 1
    /\ UNCHANGED <<unpark, file, mounted, boot, pc, handler, targetpos,
                   request, startPos, resp, lastSet, setFailed>>

\* variant: the loop variable is a uint8_t and wraps around below 0
StepDownWraps ==
    /\ pc = "down"
    /\ LoopDown(pos, targetpos)
    /\ valueUs' = ServoWrite(pos)
    /\ cmds' = Append(cmds, pos)
    /\ pos' = (pos - 1) % UINT8
    /\ UNCHANGED <<unpark, file, mounted, boot, pc, handler, targetpos,
                   request, startPos, resp, lastSet, setFailed>>

\* one iteration of gotoPos's descending loop
StepDown ==
    /\ pc = "down"
    /\ LoopDown(pos, targetpos)
    /\ valueUs' = ServoWrite(pos)
    /\ cmds' = Append(cmds, pos)
    /\ pos' = pos - 1
    /\ UNCHANGED <<unpark, file, mounted, boot, pc, handler, targetpos,
                   request, startPos, resp, lastSet, setFailed>>

\* the loop test fails: gotoPos returns and its caller sends OK
GotoReturn ==
    /\ \/ pc = "up" /\ ~LoopUp(pos, targetpos)
       \/ pc = "down" /\ ~LoopDown(pos, targetpos)
    /\ pc' = "idle"
    /\ resp' = OK
    /\ UNCHANGED <<valueUs, unpark, file, mounted, boot, handler, targetpos,
                   pos, request, startPos, cmds, lastSet, setFailed>>

handleStatus ==
    /\ Enter("status", NoRequest)
    /\ resp' = Response(200, StatusWord(ToUint8(Position)), ToUint8(Position))
    /\ UNCHANGED <<valueUs, unpark, file, mounted, boot, pc, targetpos, pos,
                   lastSet, setFailed>>

\* variant: unpark is assigned only when the file could be opened
handleSetOnlyIfWritten ==
    /\ Enter("set", NoRequest)
    /\ \E openOk \in BOOLEAN :
          IF mounted /\ openOk
          THEN /\ unpark' = ToUint8(Position)
               /\ file' = ToDigits(unpark')
               /\ lastSet' = Position
               /\ setFailed' = FALSE
          ELSE /\ unpark' = unpark
               /\ file' = file
               /\ lastSet' = None
               /\ setFailed' = TRUE
    /\ resp' = OK
    /\ UNCHANGED <<valueUs, mounted, boot, pc, targetpos, pos>>

\* variant: the file is written before unpark is assigned
handleSetWritesOldValue ==
    /\ Enter("set", NoRequest)
    /\ unpark' = ToUint8(Position)
    /\ \E openOk \in BOOLEAN :
          IF mounted /\ openOk
          THEN /\ file' = ToDigits(unpark)
               /\ lastSet' = Position
               /\ setFailed' = FALSE
          ELSE /\ file' = file
               /\ lastSet' = None
               /\ setFailed' = TRUE
    /\ resp' = OK
    /\ UNCHANGED <<valueUs, mounted, boot, pc, targetpos, pos>>

\* variant: the pulse width is stored instead of the position
handleSetStoresPulse ==
    /\ Enter("set", NoRequest)
    /\ unpark' = ToUint8(valueUs)
    /\ \E openOk \in BOOLEAN :
          IF mounted /\ openOk
          THEN /\ file' = ToDigits(unpark')
               /\ lastSet' = Position
               /\ setFailed' = FALSE
          ELSE /\ file' = file
               /\ lastSet' = None
               /\ setFailed' = TRUE
    /\ resp' = OK
    /\ UNCHANGED <<valueUs, mounted, boot, pc, targetpos, pos>>

\* handleSetParkPosition: open() fails when the store is not mounted
handleSetParkPosition ==
    /\ Enter("set", NoRequest)
    /\ unpark' = ToUint8(Position)
    /\ \E openOk \in BOOLEAN :
          IF mounted /\ openOk
          THEN /\ file' = ToDigits(unpark')
               /\ lastSet' = Position
               /\ setFailed' = FALSE
          ELSE /\ file' = file
               /\ lastSet' = None
               /\ setFailed' = TRUE
    /\ resp' = OK
    /\ UNCHANGED <<valueUs, mounted, boot, pc, targetpos, pos>>

\* variant: /reset does not format the store
handleResetKeepsFile ==
    /\ Enter("reset", NoRequest)
    /\ unpark' = UNPARK_DEFAULT
    /\ lastSet' = None
    /\ setFailed' = FALSE
    /\ resp' = OK
    /\ UNCHANGED <<valueUs, file, mounted, boot, pc, targetpos, pos>>

handleResetParkPosition ==
    /\ Enter("reset", NoRequest)
    /\ unpark' = UNPARK_DEFAULT
    /\ file' = NoFile
    /\ lastSet' = None
    /\ setFailed' = FALSE
    /\ resp' = OK
    /\ UNCHANGED <<valueUs, mounted, boot, pc, targetpos, pos>>

handleRoot ==
    /\ Enter("root", NoRequest)
    /\ resp' = Response(200, "usage", None)
    /\ UNCHANGED <<valueUs, unpark, file, mounted, boot, pc, targetpos, pos,
                   lastSet, setFailed>>

handleNotFound ==
    /\ Enter("notfound", NoRequest)
    /\ resp' = Response(404, "Not Found", None)
    /\ UNCHANGED <<valueUs, unpark, file, mounted, boot, pc, targetpos, pos,
                   lastSet, setFailed>>

Next ==
    \/ Setup
    \/ Restart
    \/ handleRoot
    \/ handleNotFound
    \/ handleGoto
    \/ handlePark
    \/ handleUnpark
    \/ StepUp
    \/ StepDown
    \/ GotoReturn
    \/ handleStatus
    \/ handleSetParkPosition
    \/ handleResetParkPosition

Spec == Init /\ [][Next]_vars

----------------------------------------------------------------------------
(* Moves to every 8-bit target.  The handlers run to completion: a running
   loop takes its next iteration and a finished loop returns. *)

\* /goto is requested only where the position is a multiple of StartStride
StartStride == 90

handleGotoByte ==
    \E n \in 0..(UINT8 - 1) :
      /\ Position % StartStride = 0
      /\ Goto(<< <<"pos", ToDigits(n)>> >>)

\* the idle loop after a setup() that mounted the store and found no record
MoveInit ==
    /\ valueUs = ServoWrite(park)
    /\ unpark = UNPARK_DEFAULT
    /\ file = NoFile
    /\ mounted = TRUE
    /\ boot = "nofile"
    /\ pc = "idle"
    /\ handler = "none"
    /\ targetpos = 0
    /\ pos = 0
    /\ request = NoRequest
    /\ startPos = 0
    /\ cmds = <<>>
    /\ resp = NoResp
    /\ lastSet = None
    /\ setFailed = FALSE

MoveNext ==
    \/ handleGotoByte
    \/ handlePark
    \/ handleUnpark
    \/ StepUp
    \/ StepDown
    \/ GotoReturn

MoveSpec ==
    /\ MoveInit
    /\ [][MoveNext]_vars
    /\ WF_vars(StepUp)
    /\ WF_vars(StepDown)
    /\ WF_vars(GotoReturn)

----------------------------------------------------------------------------
(* Vocabulary of the properties *)

Valid(n) == n \in 0..MAX_ANGLE
Abs(n) == IF n < 0 THEN 0 - n ELSE n

\* every integer from a to b inclusive, in the direction of travel
Range(a, b) ==
    [i \in 1..(Abs(b - a) + 1) |-> IF b >= a THEN a + (i - 1) ELSE a - (i - 1)]

IsPrefix(s, t) == Len(s) <= Len(t) /\ \A i \in 1..Len(s) : s[i] = t[i]

MoveHandler == handler \in {"goto", "park", "unpark"}

\* the position the running (or last) move handler was asked for
Target ==
    IF handler = "goto" THEN (IF request.given THEN request.n ELSE startPos)
    ELSE IF handler = "park" THEN park
    ELSE unpark

Completed == pc = "idle" /\ resp # NoResp
JustBooted == pc = "idle" /\ handler = "none"

\* a step that serves /status
StatusStep == pc = "idle" /\ pc' = "idle" /\ handler' = "status"

----------------------------------------------------------------------------
(* C1: a move to a target in [0, 180] commands every integer from the
   starting position to the target inclusive, in order and without a gap,
   the servo follows each command, and the move ends at the target. *)
C1_MoveVisitsEveryPosition ==
    (MoveHandler /\ Valid(Target) /\ Valid(startPos)) =>
        /\ IsPrefix(cmds, Range(startPos, Target))
        /\ cmds # <<>> => Position = cmds[Len(cmds)]
        /\ Completed =>
              /\ Position = Target
              /\ Target # startPos => cmds = Range(startPos, Target)

C1_Witness ==
    /\ handler = "goto" /\ Completed
    /\ request.n = 7 /\ startPos = 180
    /\ Len(cmds) = 174 /\ Position = 7

(* C2 as stated: a /goto whose target lies outside [0, 180] fails with an
   error, commands nothing and leaves the position where it was. *)
C2_OutOfRangeRejected ==
    (handler = "goto" /\ request.given /\ request.numeric
        /\ ~Valid(request.n)) =>
        /\ cmds = <<>>
        /\ Position = startPos
        /\ resp # OK

(* C3: the position read from the servo is within [0, 180] in every state,
   whatever was requested. *)
C3_PositionInRange == Position \in 0..MAX_ANGLE

C3_Witness ==
    /\ handler = "goto" /\ request.n = 200
    /\ cmds # <<>> /\ cmds[Len(cmds)] = 200

(* C4 as stated: once set up, the position changes by at most one unit in
   any step of any handler. *)
C4_UnitSteps ==
    [][(pc # "boot" /\ pc' # "boot") => Abs(Position' - Position) <= 1]_vars

(* C5: a move whose target is the current position commands nothing, takes
   no step and answers OK at once. *)
C5_MoveToCurrentIsNoOp ==
    (MoveHandler /\ Target = startPos) =>
        /\ cmds = <<>>
        /\ Position = startPos
        /\ Completed /\ resp = OK

C5_Witness ==
    /\ handler = "unpark" /\ startPos = unpark /\ unpark = 7
    /\ Completed /\ cmds = <<>>

(* C6: /status reports parked if the position is park, else unparked if it
   is unpark, else custom, together with the position, and it changes
   neither the position, nor unpark, nor the config file. *)
C6_StatusIsClassification ==
    [][/\ handler' = "status" =>
            /\ resp'.pos = Position'
            /\ Position' = park => resp'.body = "parked"
            /\ (Position' # park /\ Position' = unpark') =>
                   resp'.body = "unparked"
            /\ (Position' # park /\ Position' # unpark') =>
                   resp'.body = "custom"
       /\ StatusStep => UNCHANGED <<valueUs, unpark, file>>]_vars

C6_Witness ==
    /\ handler = "status" /\ unpark = park /\ Position = park
    /\ resp.body = "parked"

(* C7: with a working store, the position a successful /set stored is the
   value of unpark after the next restart, whatever moves or status
   requests came in between; every value in [0, 180] survives the file
   format. *)
C7_SetSurvivesRestart ==
    /\ (JustBooted /\ lastSet # None
          /\ boot \notin {"nofs", "openfail", "parsefail"}) =>
            (boot = "ok" /\ unpark = lastSet)
    /\ pc = "boot" => \A p \in 0..MAX_ANGLE : FromDigits(ToDigits(p)) = p

C7_Witness ==
    /\ JustBooted /\ boot = "ok"
    /\ lastSet = 90 /\ unpark = 90

(* C8: /reset leaves unpark at 180 and the store without a record; a
   restart without a record yields unpark = 180; only /set creates the
   record. *)
C8_ResetSemantics ==
    [][/\ handler' = "reset" =>
            (unpark' = UNPARK_DEFAULT /\ file' = NoFile)
       /\ (JustBooted' /\ file' = NoFile) => unpark' = UNPARK_DEFAULT
       /\ (file = NoFile /\ file' # NoFile) => handler' = "set"]_vars

C8_Witness ==
    /\ handler = "reset" /\ startPos = 90
    /\ unpark = UNPARK_DEFAULT /\ file = NoFile

(* C9 as stated: a /goto without a pos argument, or with one that is not an
   integer, commands nothing, leaves the position and answers OK. *)
C9_UnparsableIsNoOp ==
    (handler = "goto" /\ (~request.given \/ ~request.numeric)) =>
        /\ cmds = <<>>
        /\ Position = startPos
        /\ resp = OK

(* C10: when /park has answered the position is park, when /unpark has
   answered it is unpark; a /status served next says parked, respectively
   unparked when unpark differs from park. *)
C10_ParkUnparkReachPreset ==
    [][/\ (handler' = "park" /\ Completed') => Position' = park
       /\ (handler' = "unpark" /\ Completed') => Position' = unpark'
       /\ (handler = "park" /\ Completed /\ StatusStep) =>
              resp'.body = "parked"
       /\ (handler = "unpark" /\ Completed /\ unpark # park /\ StatusStep)
              => resp'.body = "unparked"]_vars

C10_Witness ==
    /\ handler = "unpark" /\ Completed
    /\ unpark = 7 /\ Position = 7 /\ startPos = 180

----------------------------------------------------------------------------
Moving == pc \in {"up", "down"}
BootFault == boot \in {"nofs", "openfail", "parsefail"}

\* time spent in delay() by the running (or last) handler, in milliseconds
Blocked == SERVOSPEED * Len(cmds)

(* C11: when /set cannot write the file, unpark is the current position all
   the same, the answer is OK and the server goes on serving. *)
C11_SetFailureNotSurfaced ==
    (handler = "set" /\ setFailed) =>
        /\ unpark = Position
        /\ resp = OK
        /\ pc = "idle" /\ ENABLED handleStatus

C11_Witness ==
    /\ handler = "set" /\ setFailed /\ mounted
    /\ unpark = 90 /\ Position = 90 /\ file = ToDigits(7)

(* C12 as stated: after a startup that could not mount the store, found no
   record, or could not read or parse the record, unpark is 180 and the
   server is serving. *)
C12_StartupFallsBackToDefault ==
    (JustBooted /\ boot \in {"nofs", "nofile", "openfail", "parsefail"}) =>
        unpark = UNPARK_DEFAULT

(* C13 as stated: a completed move from c to a valid target t has issued
   exactly |t - c| commands and step delays. *)
C13_StepCountIsDistance ==
    (MoveHandler /\ Valid(Target) /\ Completed) =>
        /\ Len(cmds) = Abs(Target - startPos)
        /\ Blocked = SERVOSPEED * Abs(Target - startPos)

(* C13 amended: a completed move from c to a valid target t # c has issued
   |t - c| + 1 commands and step delays, the first one for c itself; a move
   to t = c has issued none. *)
C13_StepCountIsDistancePlusOne ==
    (MoveHandler /\ Valid(Target) /\ Completed) =>
        /\ Len(cmds) = IF Target = startPos THEN 0
                       ELSE Abs(Target - startPos) + 1
        /\ Blocked = IF Target = startPos THEN 0
                     ELSE SERVOSPEED * (Abs(Target - startPos) + 1)

C13_Witness ==
    /\ handler = "park" /\ Completed
    /\ startPos = 90 /\ Len(cmds) = 91 /\ Blocked = 1820

(* C14: while a move is in progress no other handler runs: until the move's
   handler has answered, the handler, its request, the presets and the
   store stay as they are, the position changes only by the move's own
   commands, and no response is sent; the next handler is entered only
   from the idle loop, after the answer. *)
C14_MoveRunsToCompletion ==
    [][/\ (Moving /\ pc' # "boot") =>
            /\ UNCHANGED <<handler, request, startPos, targetpos, unpark,
                           file, mounted, lastSet, setFailed>>
            /\ valueUs' # valueUs => Len(cmds') = Len(cmds) + 1
            /\ IsPrefix(cmds, cmds')
       /\ Moving' => (resp' = NoResp /\ handler' \in {"goto", "park", "unpark"})
       /\ (handler' # handler /\ pc' # "boot") =>
            (pc = "idle" /\ (handler # "none" => resp # NoResp))]_vars

C14_Witness ==
    /\ handler = "park" /\ pc = "down" /\ startPos = 90
    /\ Len(cmds) = 45 /\ resp = NoResp

(* C15: while serving, unpark and the config file change only in /set and
   /reset, and /set and /reset leave the position where it is. *)
C15_OnlySetAndResetWritePreset ==
    [][(pc # "boot" /\ pc' # "boot") =>
         /\ (unpark' # unpark \/ file' # file) =>
                (pc = "idle" /\ handler' \in {"set", "reset"})
         /\ (pc = "idle" /\ handler' \in {"set", "reset"}) =>
                (valueUs' = valueUs /\ pc' = "idle" /\ cmds' = <<>>)]_vars

C15_Witness ==
    /\ handler = "set" /\ ~setFailed
    /\ unpark = 90 /\ Position = 90 /\ file = ToDigits(90)

(* C17: with a working store, between and during requests the record and
   the preset agree: no record and unpark = 180, or a record holding
   unpark; so what setup() would load is the value unpark has. *)
C17_RecordMatchesPreset ==
    (pc # "boot" /\ ~BootFault /\ ~setFailed) =>
        /\ file = NoFile => unpark = UNPARK_DEFAULT
        /\ file # NoFile => FromDigits(file) = unpark
        /\ file = NoFile \/ LoadUnpark("ok") = unpark

C17_Witness ==
    /\ handler = "set" /\ boot = "ok" /\ ~setFailed
    /\ Position = 7 /\ unpark = 7 /\ file = ToDigits(7)

(* C18: unpark is within [0, 180] in every state, and the target of
   /unpark is. *)
C18_UnparkInRange ==
    /\ unpark \in 0..MAX_ANGLE
    /\ handler = "unpark" => (Valid(Target) /\ (Moving => Valid(targetpos)))

C18_Witness ==
    /\ handler = "unpark" /\ Moving /\ boot = "ok"
    /\ unpark = 7 /\ targetpos = 7

(* C19: setup() leaves the servo at park in one command, whatever unpark
   was loaded, and a /status served first after a restart says
   parked (0). *)
C19_RestartParks ==
    [][/\ (pc = "boot" /\ pc' = "idle") => (Position' = park /\ cmds' = <<>>)
       /\ JustBooted' => Position' = park
       /\ (JustBooted /\ StatusStep) =>
              (resp'.body = "parked" /\ resp'.pos = 0)]_vars

C19_Witness ==
    /\ handler = "status" /\ startPos = park /\ boot = "ok"
    /\ unpark = 7 /\ resp = Response(200, "parked", 0)

\* iterations the running loop of gotoPos has left
Remaining ==
    IF pc = "up" THEN targetpos + 1 - pos
    ELSE IF pc = "down" THEN pos + 1 - targetpos
    ELSE 0

(* C16: every move terminates: each iteration of gotoPos leaves fewer
   iterations to go, and a handler that is moving eventually answers and
   the server is idle again, for every 8-bit target. *)
C16_EveryMoveTerminates ==
    /\ [][(Moving /\ Moving') =>
            (Remaining' < Remaining /\ Remaining' >= 0)]_vars
    /\ (Moving ~> (pc = "idle" /\ resp = OK))

C16_Witness ==
    /\ handler = "goto" /\ Completed /\ resp = OK
    /\ request.n = 255 /\ startPos = 0 /\ Len(cmds) = 256

\* the commands of a /goto that starts at s with the 8-bit target t
GotoCommands(s, t) == IF t = s THEN <<>> ELSE Range(s, t)

(* C20: the commands of /goto?pos=n are those of the target n mod 256:
   they depend on n only through its residue, so congruent requests from
   the same position command the same sequence. *)
C20_TargetIsResidue ==
    (handler = "goto" /\ request.given) =>
        /\ IsPrefix(cmds, GotoCommands(startPos, request.n % UINT8))
        /\ Moving => targetpos = request.n % UINT8
        /\ Completed => cmds = GotoCommands(startPos, request.n % UINT8)

C20_Witness ==
    /\ handler = "goto" /\ Completed
    /\ request.n = 256 /\ startPos = 90 /\ Len(cmds) = 91 /\ Position = 0

====
